---------------------------- MODULE Spec2Model ----------------------------
(***************************************************************************)
(* Model of the request rate limiter of pdf-editor-pro                     *)
(* (src/lib/rateLimit.ts): the process-wide store of request logs, the     *)
(* decision function checkRateLimit, checkMultipleRateLimits,              *)
(* resetRateLimit, getRateLimitStatus, getRateLimitStats,                  *)
(* createRateLimitKey, the periodic cleanup sweep and its timer, and the   *)
(* rate limit of the middleware (src/unnamed/part_004).                    *)
(***************************************************************************)
EXTENDS Integers, Sequences, FiniteSets, TLC

VARIABLES
    now,       \* the value Date.now() returns (milliseconds)
    store,     \* RateLimitStore.store: a Map from identifier to RequestLog
    hist,      \* the latest calls, oldest first, each with its result
    solo,      \* solo[i]: the store of the run in which only the calls
               \* that name identifier i (and the sweeps) are made
    soloRes,   \* what the latest call returned in that run
    ids,       \* the identifiers the callers of this run use
    policies,  \* the RateLimitConfig objects the callers of this run use
    times,     \* the instants at which the clock is sampled in this run
    keep,      \* how many calls hist keeps; 0: all of them (MaxCalls)
    tasks,     \* the requests in flight: queued for the event loop, or
               \* inside checkRateLimit between its read and its write
    running,   \* the request whose handler the event loop is running; 0: none
    rateLimitStore,  \* the middleware's Map from client IP to timestamps
    traffic,   \* for each client IP, the requests the middleware has
               \* checked against its limit since the first of them
    cleanupInterval,  \* RateLimitStore.cleanupInterval: the handle of the
               \* interval timer, or null
    timers,    \* the interval timers the runtime holds and will fire
    unswept,   \* the store of the run in which the same calls are made
               \* and no sweep ever runs
    unsweptRes \* what the latest call returned in that run

vars == <<now, store, hist, solo, soloRes, ids, policies, times, keep,
          tasks, running, rateLimitStore, traffic, cleanupInterval, timers,
          unswept, unsweptRes>>
env  == <<ids, policies, times, keep>>
loop == <<tasks, running>>
mw   == <<rateLimitStore, traffic>>
timer  == <<cleanupInterval, timers>>
shadow == <<unswept, unsweptRes>>

---------------------------------------------------------------------------
(* Bounds of the model.                                                    *)

\* each clock base b is sampled at b, b+1, ..., b+MaxOffset
MaxOffset == 1
\* the number of calls a run with a full history makes
MaxCalls == 5
\* the number of requests that can be in flight at once
MaxTasks == 2
\* the number of /api/ requests the busy client sends to the middleware
MaxSent == 62

---------------------------------------------------------------------------
(* Values.                                                                 *)

\* JavaScript's undefined, for the optional number blockUntil and for
\* timestamps[0] of an empty array (numbers of the model are >= 0)
Undefined == -1
\* JavaScript's NaN: the sum undefined + windowMs
NaN == -2

DefaultMessage == "Rate limit exceeded. Please try again later."

RetentionMs == 60 * 60 * 1000

\* the policies of the scenarios; message "" stands for an absent message
PA == [maxRequests |-> 2, windowMs |-> 5000, message |-> ""]
PB == [maxRequests |-> 3, windowMs |-> 1000, message |-> "three"]
PC == [maxRequests |-> 1, windowMs |-> 1000, message |-> "strict"]
PD == [maxRequests |-> 1, windowMs |-> 2 * RetentionMs, message |-> ""]
PE == [maxRequests |-> 2, windowMs |-> 1000, message |-> "lenient"]
\* a policy whose window is the retention horizon of the sweep
PH == [maxRequests |-> 2, windowMs |-> RetentionMs, message |-> "hourly"]
Policies == {PA, PB, PC, PD}

\* policies outside the range maxRequests >= 1, windowMs >= 1
P0 == [maxRequests |-> 0, windowMs |-> 1000, message |-> ""]
PN == [maxRequests |-> 0 - 1, windowMs |-> 1000, message |-> ""]
PZ == [maxRequests |-> 1, windowMs |-> 0, message |-> ""]
BadPolicies == {P0, PN, PZ}

Ids == {"A", "B"}

\* client identifiers (a name, an IPv6 address, strings with a colon) and
\* endpoints handed to createRateLimitKey
KeyIdentifiers == {"a", "a:b", "::1", "2001:db8::1"}
KeyEndpoints == {"c", "b:c", "upload"}

Sampled(bases) == UNION {{b + o : o \in 0..MaxOffset} : b \in bases}
\* instants around the ends of the windows and of the retention horizon
LongTimes == Sampled({0, RetentionMs, 2 * RetentionMs})

\* a value of Date.now() at which the process starts: a positive number of
\* milliseconds since 1970
Epoch == 1000

\* the instants of the scenarios, and the end of the window opened at 0
TimesFor(config) == Sampled({0, 100, 200, config.windowMs})

---------------------------------------------------------------------------
(* The request log and the store.                                          *)

\* checkRateLimit, lines 160-163, and resetRateLimit, lines 260-263
FreshLog == [timestamps |-> <<>>, blocked |-> FALSE, blockUntil |-> Undefined]

\* the values of cleanupInterval: null, and the Timeout object that
\* setInterval returns
Null == "null"
Timeout == "Timeout"

\* what Map.get returns for a key the map does not hold
NoLog == [absent |-> TRUE]

Has(st, key) == key \in DOMAIN st

\* RateLimitStore.get
Get(st, key) == IF Has(st, key) THEN st[key] ELSE NoLog

\* RateLimitStore.set
Set(st, key, log) == [k \in DOMAIN st \cup {key} |-> IF k = key THEN log ELSE st[k]]

\* RateLimitStore.delete, as cleanup uses it
Delete(st, key) == [k \in DOMAIN st \ {key} |-> st[k]]

EmptyStore == [k \in {} |-> FreshLog]

\* a JavaScript number used as a condition: undefined, NaN and 0 are falsy
Truthy(n) == n \notin {Undefined, NaN, 0}

\* JavaScript's x + windowMs, where x may be undefined
Plus(x, w) == IF x \in {Undefined, NaN} THEN NaN ELSE x + w

\* JavaScript's a > b on numbers: every comparison with NaN is false
Greater(a, b) == a \notin {Undefined, NaN} /\ a > b

\* timestamps[0]
First(ts) == IF Len(ts) = 0 THEN Undefined ELSE ts[1]

\* a purge that keeps the entry whose age is exactly windowMs
Purge_Inclusive(ts, t, windowMs) == SelectSeq(ts, LAMBDA x : t - x <= windowMs)

\* log.timestamps.filter(t => now - t < windowMs)
Purge(ts, t, windowMs) == SelectSeq(ts, LAMBDA x : t - x < windowMs)

\* a block test that takes a raised flag without a usable blockUntil for
\* a block
isBlocked_FlagFirst(log, t) ==
    log.blocked /\ (~Truthy(log.blockUntil) \/ Greater(log.blockUntil, t))

\* a block test under which the block still holds at blockUntil itself
isBlocked_Inclusive(log, t) ==
    log.blocked /\ Truthy(log.blockUntil) /\ ~Greater(t, log.blockUntil)

\* log.blocked && log.blockUntil && log.blockUntil > now
isBlocked(log, t) ==
    log.blocked /\ Truthy(log.blockUntil) /\ Greater(log.blockUntil, t)

\* message || 'Rate limit exceeded. Please try again later.'
DenialMessage(config) ==
    IF config.message = "" THEN DefaultMessage ELSE config.message

\* a quota test that is off by one
LimitReached_OffByOne(ts, maxRequests) == Len(ts) > maxRequests

\* the quota test of line 180
LimitReached(ts, maxRequests) == Len(ts) >= maxRequests

\* the RateLimitResult of a denial
Denied(resetAt, config) ==
    [allowed |-> FALSE, remaining |-> 0, resetAt |-> resetAt,
     message |-> DenialMessage(config)]

\* a blocked branch that recomputes resetAt at each call
BlockedBranch_Recomputed(st, identifier, log, config, t) ==
    [store |-> st, res |-> Denied(t + config.windowMs, config)]

\* lines 166-174: the identifier is under a block; nothing is written
BlockedBranch(st, identifier, log, config, t) ==
    [store |-> st, res |-> Denied(log.blockUntil, config)]

\* a denial that blocks for a whole window counted from the denied call
DenyBranch_FromNow(st, identifier, log, ts, config, t) ==
    LET blockUntil == t + config.windowMs
    IN  [store |-> Set(st, identifier,
                       [timestamps |-> ts, blocked |-> TRUE,
                        blockUntil |-> blockUntil]),
         res |-> Denied(blockUntil, config)]

\* a denial that records the denied request
DenyBranch_Records(st, identifier, log, ts, config, t) ==
    LET blockUntil == Plus(First(ts), config.windowMs)
    IN  [store |-> Set(st, identifier,
                       [timestamps |-> Append(ts, t), blocked |-> TRUE,
                        blockUntil |-> blockUntil]),
         res |-> Denied(blockUntil, config)]

\* a denial that stores blockUntil and forgets to raise the blocked flag
DenyBranch_NoFlag(st, identifier, log, ts, config, t) ==
    LET blockUntil == Plus(First(ts), config.windowMs)
    IN  [store |-> Set(st, identifier,
                       [timestamps |-> ts, blocked |-> log.blocked,
                        blockUntil |-> blockUntil]),
         res |-> Denied(blockUntil, config)]

\* a denial that takes the oldest timestamp of the log as it was read,
\* before the purge
DenyBranch_StaleOldest(st, identifier, log, ts, config, t) ==
    LET blockUntil == Plus(First(log.timestamps), config.windowMs)
    IN  [store |-> Set(st, identifier,
                       [timestamps |-> ts, blocked |-> TRUE,
                        blockUntil |-> blockUntil]),
         res |-> Denied(blockUntil, config)]

\* lines 179-195: the purged log ts holds maxRequests entries or more
DenyBranch(st, identifier, log, ts, config, t) ==
    LET blockUntil == Plus(First(ts), config.windowMs)
    IN  [store |-> Set(st, identifier,
                       [timestamps |-> ts, blocked |-> TRUE,
                        blockUntil |-> blockUntil]),
         res |-> Denied(blockUntil, config)]

\* an admission that forgets to clear the blocked flag
AdmitBranch_KeepsBlocked(st, identifier, log, ts, config, t) ==
    LET pushed == Append(ts, t)
    IN  [store |-> Set(st, identifier,
                       [timestamps |-> pushed, blocked |-> log.blocked,
                        blockUntil |-> log.blockUntil]),
         res |-> [allowed |-> TRUE,
                  remaining |-> config.maxRequests - Len(pushed),
                  resetAt |-> Plus(First(pushed), config.windowMs),
                  message |-> ""]]

\* an admission that computes remaining before it records the request
AdmitBranch_CountsBefore(st, identifier, log, ts, config, t) ==
    LET pushed == Append(ts, t)
    IN  [store |-> Set(st, identifier,
                       [timestamps |-> pushed, blocked |-> FALSE,
                        blockUntil |-> log.blockUntil]),
         res |-> [allowed |-> TRUE,
                  remaining |-> config.maxRequests - Len(ts),
                  resetAt |-> Plus(First(pushed), config.windowMs),
                  message |-> ""]]

\* lines 197-213: the request is admitted and recorded
AdmitBranch(st, identifier, log, ts, config, t) ==
    LET pushed == Append(ts, t)
    IN  [store |-> Set(st, identifier,
                       [timestamps |-> pushed, blocked |-> FALSE,
                        blockUntil |-> log.blockUntil]),
         res |-> [allowed |-> TRUE,
                  remaining |-> config.maxRequests - Len(pushed),
                  resetAt |-> Plus(First(pushed), config.windowMs),
                  message |-> ""]]

(***************************************************************************)
(* checkRateLimit(identifier, config) at time t on store st: the store it  *)
(* leaves and the RateLimitResult it returns.                              *)
(***************************************************************************)
\* lines 157-164: the log that was read, or a new one
OrFresh(read) == IF read = NoLog THEN FreshLog ELSE read

\* lines 166-213: purge, decide and write, for the log that was read
DecideAndWrite(st, identifier, log, config, t) ==
    IF isBlocked(log, t)
    THEN BlockedBranch(st, identifier, log, config, t)
    ELSE
      LET ts == Purge(log.timestamps, t, config.windowMs)
      IN  IF LimitReached(ts, config.maxRequests)
          THEN DenyBranch(st, identifier, log, ts, config, t)
          ELSE AdmitBranch(st, identifier, log, ts, config, t)

checkRateLimit(st, identifier, config, t) ==
    DecideAndWrite(st, identifier, OrFresh(Get(st, identifier)), config, t)

\* the result of checkMultipleRateLimits when every check passed
AllPassed(t) ==
    [allowed |-> TRUE, remaining |-> -1, resetAt |-> t, message |-> ""]

\* a multiple check that undoes what the earlier policies wrote when a
\* later policy denies
RECURSIVE checkMultipleRateLimits_RollsBack(_, _, _, _)
checkMultipleRateLimits_RollsBack(st, identifier, configs, t) ==
    IF configs = <<>>
    THEN [store |-> st, res |-> AllPassed(t)]
    ELSE LET r == checkRateLimit(st, identifier, Head(configs), t)
         IN  IF ~r.res.allowed
             THEN r
             ELSE LET rest == checkMultipleRateLimits_RollsBack(
                                  r.store, identifier, Tail(configs), t)
                  IN  IF rest.res.allowed THEN rest
                      ELSE [store |-> st, res |-> rest.res]

(***************************************************************************)
(* checkMultipleRateLimits(identifier, configs): the checks are made in    *)
(* list order on the same identifier, and the first denial is returned.    *)
(***************************************************************************)
RECURSIVE checkMultipleRateLimits(_, _, _, _)
checkMultipleRateLimits(st, identifier, configs, t) ==
    IF configs = <<>>
    THEN [store |-> st, res |-> AllPassed(t)]
    ELSE LET r == checkRateLimit(st, identifier, Head(configs), t)
         IN  IF ~r.res.allowed
             THEN r
             ELSE checkMultipleRateLimits(r.store, identifier, Tail(configs), t)

\* a reset that empties the log but leaves its block in place
resetRateLimit_KeepsBlock(st, identifier) ==
    IF Has(st, identifier)
    THEN Set(st, identifier, [st[identifier] EXCEPT !.timestamps = <<>>])
    ELSE Set(st, identifier, FreshLog)

\* a reset that replaces the whole map
resetRateLimit_ClearsAll(st, identifier) == Set(EmptyStore, identifier, FreshLog)

\* resetRateLimit(identifier)
resetRateLimit(st, identifier) == Set(st, identifier, FreshLog)

\* recentRequests[0] || now: undefined and 0 are falsy
OrNow(x, t) == IF Truthy(x) THEN x ELSE t

\* Math.max(0, n)
Max0(n) == IF n > 0 THEN n ELSE 0

\* a status query that counts the request whose age is exactly windowMs
getRateLimitStatus_Inclusive(st, identifier, config, t) ==
    LET log == Get(st, identifier)
    IN  IF log = NoLog
        THEN [store |-> st,
              res |-> [current |-> 0, max |-> config.maxRequests,
                       remaining |-> config.maxRequests,
                       resetAt |-> t + config.windowMs]]
        ELSE LET recentRequests ==
                     Purge_Inclusive(log.timestamps, t, config.windowMs)
             IN  [store |-> st,
                  res |-> [current |-> Len(recentRequests),
                           max |-> config.maxRequests,
                           remaining |->
                               Max0(config.maxRequests - Len(recentRequests)),
                           resetAt |-> Plus(OrNow(First(recentRequests), t),
                                            config.windowMs)]]

\* a status query that stores the purged array, as checkRateLimit does
getRateLimitStatus_PersistsPurge(st, identifier, config, t) ==
    LET log == Get(st, identifier)
    IN  IF log = NoLog
        THEN [store |-> st,
              res |-> [current |-> 0, max |-> config.maxRequests,
                       remaining |-> config.maxRequests,
                       resetAt |-> t + config.windowMs]]
        ELSE LET recentRequests == Purge(log.timestamps, t, config.windowMs)
             IN  [store |-> Set(st, identifier,
                                [log EXCEPT !.timestamps = recentRequests]),
                  res |-> [current |-> Len(recentRequests),
                           max |-> config.maxRequests,
                           remaining |->
                               Max0(config.maxRequests - Len(recentRequests)),
                           resetAt |-> Plus(OrNow(First(recentRequests), t),
                                            config.windowMs)]]

\* getRateLimitStatus(identifier, config) at time t: the store it leaves
\* (the one it found) and the status it returns
getRateLimitStatus(st, identifier, config, t) ==
    LET log == Get(st, identifier)
    IN  IF log = NoLog
        THEN [store |-> st,
              res |-> [current |-> 0, max |-> config.maxRequests,
                       remaining |-> config.maxRequests,
                       resetAt |-> t + config.windowMs]]
        ELSE LET recentRequests == Purge(log.timestamps, t, config.windowMs)
             IN  [store |-> st,
                  res |-> [current |-> Len(recentRequests),
                           max |-> config.maxRequests,
                           remaining |->
                               Max0(config.maxRequests - Len(recentRequests)),
                           resetAt |-> Plus(OrNow(First(recentRequests), t),
                                            config.windowMs)]]

\* log.timestamps.some(t => t > oneHourAgo)
hasRecentRequests(log, t) ==
    \E i \in 1..Len(log.timestamps) : log.timestamps[i] > t - RetentionMs

\* a sweep that keeps the blocked entries alone
Evict_IgnoresRecent(log, t) == ~isBlocked(log, t)

\* a sweep that looks at the timestamps alone
Evict_IgnoresBlock(log, t) == ~hasRecentRequests(log, t)

\* a sweep that keeps every entry whose blocked flag is raised, expired or
\* not
Evict_KeepsFlagged(log, t) == ~hasRecentRequests(log, t) /\ ~log.blocked

\* the test of line 67: the entry is deleted
Evict(log, t) == ~hasRecentRequests(log, t) /\ ~isBlocked(log, t)

\* a sweep that empties the store
cleanup_ClearsAll(st, t) == EmptyStore

\* RateLimitStore.cleanup() at time t
cleanup(st, t) ==
    [k \in {x \in DOMAIN st : ~Evict(st[x], t)} |-> st[k]]

\* a destroy() that drops the handle and leaves the timer running
destroy_KeepsTimer(handle, tm) ==
    IF handle # Null
    THEN [cleanupInterval |-> Null, timers |-> tm]
    ELSE [cleanupInterval |-> handle, timers |-> tm]

\* RateLimitStore.destroy(), on the handle and the timers of the runtime:
\* clearInterval and the handle set to null, when the handle is set
destroy(handle, tm) ==
    IF handle # Null
    THEN [cleanupInterval |-> Null, timers |-> tm \ {handle}]
    ELSE [cleanupInterval |-> handle, timers |-> tm]

\* store.get.length: the number of parameters of RateLimitStore.get
GetLength == 1

\* Array.from(store.get.toString()): the characters of the source text of
\* the method get (its first eight)
GetToString == <<"g", "e", "t", "(", "k", "e", "y", ")">>

\* typeof x === 'object', for the values the loop of getRateLimitStats
\* meets
IsObject(x) == x \notin STRING

\* getRateLimitStats() at time t
getRateLimitStats(st, t) ==
    LET iterated == IF Truthy(GetLength) THEN GetToString ELSE <<>>
        counted == {i \in 1..Len(iterated) :
                       /\ IsObject(iterated[i])
                       /\ "blocked" \in DOMAIN iterated[i]
                       /\ isBlocked(iterated[i], t)}
    IN  [totalKeys |-> Cardinality(DOMAIN st),
         blockedCount |-> Cardinality(counted)]

\* `${identifier}:${endpoint}`
createRateLimitKey(identifier, endpoint) == identifier \o ":" \o endpoint

---------------------------------------------------------------------------
(* The middleware (src/unnamed/part_004).                                  *)

\* the arguments of checkRateLimit(clientIp, 60, 60000)
Limit == 60
WindowMs == 60000

FiveMinutes == 5 * 60 * 1000

\* the client addresses of the requests; "unknown" is the fallback of
\* getClientIp
ClientIps == {"A", "B", "unknown"}

\* the requests: pathname as its segments, the x-forwarded-proto header,
\* the x-forwarded-for header as its comma-separated entries (<<>>: no
\* header), the x-real-ip header and request.ip ("": none), and whether
\* NODE_ENV is production
Request(pathname, proto, forwardedFor, realIp, ip, production) ==
    [pathname |-> pathname, proto |-> proto, forwardedFor |-> forwardedFor,
     realIp |-> realIp, ip |-> ip, production |-> production]

Requests ==
    {Request(<<"api", "test">>, "https", <<"A">>, "", "", TRUE),
     Request(<<"api", "test">>, "http", <<"A", "B">>, "B", "", FALSE),
     Request(<<"api", "test">>, "http", <<"A">>, "", "", TRUE),
     Request(<<"api", "test">>, "https", <<>>, "B", "A", TRUE),
     Request(<<"api", "test">>, "https", <<>>, "", "B", TRUE),
     Request(<<"api", "test">>, "https", <<>>, "", "", TRUE),
     Request(<<"api">>, "https", <<"A">>, "", "", TRUE),
     Request(<<"editor">>, "https", <<"A">>, "", "", TRUE)}

\* pathname.startsWith('/api/')
StartsWithApi(pathname) == Len(pathname) >= 2 /\ pathname[1] = "api"

\* getClientIp(request)
getClientIp(request) ==
    IF request.forwardedFor # <<>> THEN request.forwardedFor[1]
    ELSE IF request.realIp # "" THEN request.realIp
    ELSE IF request.ip # "" THEN request.ip
    ELSE "unknown"

\* rateLimitStore.get(ip) || []
RequestsOf(rls, ip) == IF ip \in DOMAIN rls THEN rls[ip] ELSE <<>>

\* a limit test that lets one request more through
middlewareCheckRateLimit_OffByOne(rls, ip, limit, windowMs, t) ==
    LET recentRequests ==
            SelectSeq(RequestsOf(rls, ip), LAMBDA time : t - time < windowMs)
    IN  IF Len(recentRequests) > limit
        THEN [store |-> rls, within |-> FALSE]
        ELSE [store |-> Set(rls, ip, Append(recentRequests, t)),
              within |-> TRUE]

\* checkRateLimit(ip, limit, windowMs) of the middleware at time t: the
\* map it leaves and whether the request is within the limit
middlewareCheckRateLimit(rls, ip, limit, windowMs, t) ==
    LET recentRequests ==
            SelectSeq(RequestsOf(rls, ip), LAMBDA time : t - time < windowMs)
    IN  IF Len(recentRequests) >= limit
        THEN [store |-> rls, within |-> FALSE]
        ELSE [store |-> Set(rls, ip, Append(recentRequests, t)),
              within |-> TRUE]

\* middleware(request) at time t: the map it leaves, the status of the
\* response (200: NextResponse.next()) and whether the limit was checked
middleware(rls, request, t) ==
    IF request.production /\ request.proto # "https"
    THEN [store |-> rls, status |-> 301, checked |-> FALSE]
    ELSE IF StartsWithApi(request.pathname)
    THEN LET r == middlewareCheckRateLimit(rls, getClientIp(request),
                                           Limit, WindowMs, t)
         IN  IF ~r.within
             THEN [store |-> r.store, status |-> 429, checked |-> TRUE]
             ELSE [store |-> r.store, status |-> 200, checked |-> TRUE]
    ELSE [store |-> rls, status |-> 200, checked |-> FALSE]

\* the interval callback of the middleware at time t
middlewareCleanup(rls, t) ==
    LET recent(key) == SelectSeq(rls[key], LAMBDA time : time > t - FiveMinutes)
    IN  [key \in {k \in DOMAIN rls : Len(recent(k)) # 0} |-> recent(key)]

\* no request has been checked for the client
NoTraffic == [first |-> Undefined, sent |-> 0, passed |-> 0]

\* the request was checked at time t and passed, or did not
Counted(tr, t, passed) ==
    [first |-> IF tr.first = Undefined THEN t ELSE tr.first,
     sent |-> tr.sent + 1,
     passed |-> tr.passed + (IF passed THEN 1 ELSE 0)]

\* the busy client sends up to MaxSent requests to /api/ paths, the other
\* clients one between them
BusyClient == "A"
MaySend(ip) ==
    IF ip = BusyClient THEN traffic[ip].sent < MaxSent
    ELSE \A other \in ClientIps \ {BusyClient} : traffic[other].sent = 0

---------------------------------------------------------------------------
(* The history of calls.                                                   *)

\* a call, the time it was made, what it returned, and the log of its
\* identifier before and after it (for a sweep: the whole store)
Event(op, identifier, configs, res, st, st2) ==
    [op |-> op, id |-> identifier, configs |-> configs, t |-> now,
     res |-> res, pre |-> Get(st, identifier), post |-> Get(st2, identifier)]

Record(e) ==
    IF keep = 0 \/ Len(hist) < keep THEN Append(hist, e)
    ELSE Append(Tail(hist), e)

MayCall == keep > 0 \/ Len(hist) < MaxCalls

\* a call that returns nothing
Void == [void |-> TRUE]

\* the value of unswept in the runs that do not follow the run without
\* sweeps
Untracked == [untracked |-> TRUE]

\* the stored timestamps of a log that lie inside the window of a policy
InWindow(log, config, t) ==
    IF log = NoLog THEN 0
    ELSE Cardinality({k \in 1..Len(log.timestamps) :
                         t - log.timestamps[k] < config.windowMs})

(***************************************************************************)
(* The event loop.  checkRateLimit, resetRateLimit and cleanup are         *)
(* synchronous functions: the loop runs the handler it has picked to its   *)
(* return before it picks another handler or a timer callback.             *)
(***************************************************************************)
Tasks == 1..MaxTasks

IdleTask == [pc |-> "idle"]

InFlight == {r \in Tasks : tasks[r].pc # "idle"}

\* a loop that could pick a handler while another one is between its read
\* and its write
LoopIdle_Preemptive == TRUE

\* the loop is running no handler
LoopIdle == running = 0

\* the lists of policies handed to checkMultipleRateLimits
ConfigLists ==
    {<<>>} \cup {<<pq[1], pq[2]>> :
                     pq \in {x \in policies \X policies : x[1] # x[2]}}

\* the runs in which one identifier is alone: a call acts on the run of
\* the identifier it names
SoloCall(identifier, r) ==
    /\ solo' = [solo EXCEPT ![identifier] = r.store]
    /\ soloRes' = r.res

\* the run in which no sweep ever runs: every call acts on its store too
\* (in the specifications that follow that run)
UnsweptCall(r) ==
    IF unswept = Untracked
    THEN UNCHANGED shadow
    ELSE /\ unswept' = r.store
         /\ unsweptRes' = r.res

---------------------------------------------------------------------------
(* Actions.                                                                *)

\* time passes: Date.now() never decreases
Tick ==
    /\ \E t \in times : t > now /\ now' = t
    /\ UNCHANGED <<timer, shadow, mw, store, hist, solo, soloRes, env, loop>>

\* a caller invokes checkRateLimit(identifier, config)
CheckRateLimitCall ==
    /\ MayCall
    /\ LoopIdle
    /\ \E identifier \in ids, config \in policies :
          LET r == checkRateLimit(store, identifier, config, now)
          IN  /\ store' = r.store
              /\ hist' = Record(Event("check", identifier, <<config>>, r.res,
                                      store, r.store))
              /\ SoloCall(identifier,
                          checkRateLimit(solo[identifier], identifier, config, now))
              /\ UnsweptCall(checkRateLimit(unswept, identifier, config, now))
    /\ UNCHANGED <<timer, mw, now, env, loop>>

\* a caller invokes checkMultipleRateLimits(identifier, configs)
CheckMultipleRateLimitsCall ==
    /\ MayCall
    /\ LoopIdle
    /\ \E identifier \in ids, configs \in ConfigLists :
          LET r == checkMultipleRateLimits(store, identifier, configs, now)
          IN  /\ store' = r.store
              /\ hist' = Record(Event("multi", identifier, configs, r.res,
                                      store, r.store))
              /\ SoloCall(identifier,
                          checkMultipleRateLimits(solo[identifier], identifier,
                                                  configs, now))
              /\ UnsweptCall(checkMultipleRateLimits(unswept, identifier,
                                                     configs, now))
    /\ UNCHANGED <<timer, mw, now, env, loop>>

\* a caller invokes resetRateLimit(identifier)
ResetRateLimitCall ==
    /\ MayCall
    /\ LoopIdle
    /\ \E identifier \in ids :
          LET st == resetRateLimit(store, identifier)
          IN  /\ store' = st
              /\ hist' = Record(Event("reset", identifier, <<>>, Void, store, st))
              /\ SoloCall(identifier,
                          [store |-> resetRateLimit(solo[identifier], identifier),
                           res |-> Void])
              /\ UnsweptCall([store |-> resetRateLimit(unswept, identifier),
                              res |-> Void])
    /\ UNCHANGED <<timer, mw, now, env, loop>>

\* a caller invokes getRateLimitStatus(identifier, config)
GetRateLimitStatusCall ==
    /\ MayCall
    /\ LoopIdle
    /\ \E identifier \in ids, config \in policies :
          LET r == getRateLimitStatus(store, identifier, config, now)
          IN  /\ store' = r.store
              /\ hist' = Record(Event("status", identifier, <<config>>, r.res,
                                      store, r.store))
              /\ SoloCall(identifier,
                          getRateLimitStatus(solo[identifier], identifier,
                                             config, now))
              /\ UnsweptCall(getRateLimitStatus(unswept, identifier, config,
                                                now))
    /\ UNCHANGED <<timer, mw, now, env, loop>>

\* a client goes away: no call names its identifier from now on
Leave ==
    /\ \E identifier \in ids : ids' = ids \ {identifier}
    /\ UNCHANGED <<timer, shadow, mw, now, store, hist, solo, soloRes,
                   policies, times, keep, loop>>

\* store.destroy() is called
Destroy ==
    /\ MayCall
    /\ LoopIdle
    /\ LET d == destroy(cleanupInterval, timers)
       IN  /\ cleanupInterval' = d.cleanupInterval
           /\ timers' = d.timers
    /\ hist' = Record([op |-> "destroy", id |-> "", configs |-> <<>>,
                        t |-> now, res |-> Void,
                        pre |-> store, post |-> store,
                        found |-> cleanupInterval])
    /\ UNCHANGED <<shadow, mw, now, store, solo, soloRes, env, loop>>

\* the process emits 'exit': the listener of lines 356-358 calls
\* store.destroy(); listeners registered after it still run
ProcessExit ==
    /\ MayCall
    /\ LoopIdle
    /\ LET d == destroy(cleanupInterval, timers)
       IN  /\ cleanupInterval' = d.cleanupInterval
           /\ timers' = d.timers
    /\ hist' = Record([op |-> "exit", id |-> "", configs |-> <<>>,
                        t |-> now, res |-> Void,
                        pre |-> store, post |-> store,
                        found |-> cleanupInterval])
    /\ UNCHANGED <<shadow, mw, now, store, solo, soloRes, env, loop>>

\* a caller invokes getRateLimitStats()
GetRateLimitStatsCall ==
    /\ MayCall
    /\ LoopIdle
    /\ hist' = Record([op |-> "stats", id |-> "", configs |-> <<>>,
                        t |-> now, res |-> getRateLimitStats(store, now),
                        pre |-> store, post |-> store])
    /\ UNCHANGED <<timer, shadow, mw, now, store, solo, soloRes, env, loop>>

\* a caller invokes createRateLimitKey(identifier, endpoint)
CreateRateLimitKeyCall ==
    /\ MayCall
    /\ LoopIdle
    /\ \E identifier \in KeyIdentifiers, endpoint \in KeyEndpoints :
          hist' = Record([op |-> "key", id |-> identifier,
                          endpoint |-> endpoint, configs |-> <<>>,
                          t |-> now,
                          res |-> createRateLimitKey(identifier, endpoint),
                          pre |-> store, post |-> store])
    /\ UNCHANGED <<timer, shadow, mw, now, store, solo, soloRes, env, loop>>

\* a request arrives; its handler is queued for the event loop (in the
\* first free place of tasks)
Arrive(r) ==
    /\ tasks[r].pc = "idle"
    /\ \A q \in Tasks : q < r => tasks[q].pc # "idle"
    /\ keep > 0 \/ Len(hist) + Cardinality(InFlight) < MaxCalls
    /\ \E identifier \in ids, config \in policies :
          tasks' = [tasks EXCEPT ![r] =
                       [pc |-> "queued", id |-> identifier, config |-> config,
                        arrived |-> now,
                        seen |-> InWindow(Get(store, identifier), config, now)]]
    /\ UNCHANGED <<timer, shadow, mw, now, store, hist, solo, soloRes, env,
                   running>>

\* the loop picks the handler: checkRateLimit reads the clock and the log
\* of the identifier (lines 154-164)
Begin(r) ==
    /\ tasks[r].pc = "queued"
    /\ LoopIdle
    /\ running' = r
    /\ tasks' = [tasks EXCEPT ![r] =
                    [pc |-> "running", id |-> tasks[r].id,
                     config |-> tasks[r].config,
                     arrived |-> tasks[r].arrived, seen |-> tasks[r].seen,
                     t |-> now, read |-> Get(store, tasks[r].id)]]
    /\ UNCHANGED <<timer, shadow, mw, now, store, hist, solo, soloRes, env>>

\* checkRateLimit purges, decides, writes and returns (lines 166-213)
Finish(r) ==
    /\ tasks[r].pc = "running"
    /\ LET k == tasks[r]
           d == DecideAndWrite(store, k.id, OrFresh(k.read), k.config, k.t)
       IN  /\ store' = d.store
           /\ hist' = Record([op |-> "check", id |-> k.id,
                              configs |-> <<k.config>>, t |-> k.t,
                              res |-> d.res, pre |-> k.read,
                              post |-> Get(d.store, k.id),
                              arrived |-> k.arrived, seen |-> k.seen])
           /\ UnsweptCall(DecideAndWrite(unswept, k.id,
                                         OrFresh(Get(unswept, k.id)),
                                         k.config, k.t))
    /\ tasks' = [tasks EXCEPT ![r] = IdleTask]
    /\ running' = IF running = r THEN 0 ELSE running
    /\ UNCHANGED <<timer, mw, now, solo, soloRes, env>>

\* a request reaches the middleware
MiddlewareRequest ==
    /\ LoopIdle
    /\ \E request \in Requests :
          LET clientIp == getClientIp(request)
              r == middleware(rateLimitStore, request, now)
          IN  /\ r.checked => MaySend(clientIp)
              /\ rateLimitStore' = r.store
              /\ traffic' =
                    IF r.checked
                    THEN [traffic EXCEPT ![clientIp] =
                              Counted(@, now, r.status # 429)]
                    ELSE traffic
              /\ hist' = Record([op |-> "request", id |-> clientIp,
                                 configs |-> <<>>, t |-> now,
                                 res |-> [status |-> r.status],
                                 pre |-> rateLimitStore, post |-> r.store,
                                 api |-> StartsWithApi(request.pathname),
                                 checked |-> r.checked])
    /\ UNCHANGED <<timer, shadow, now, store, solo, soloRes, env, loop>>

\* the interval timer of the middleware fires
MiddlewareCleanup ==
    /\ LoopIdle
    /\ rateLimitStore' = middlewareCleanup(rateLimitStore, now)
    /\ hist' = Record([op |-> "sweep", id |-> "", configs |-> <<>>,
                        t |-> now, res |-> Void,
                        pre |-> rateLimitStore, post |-> rateLimitStore'])
    /\ UNCHANGED <<timer, shadow, now, store, solo, soloRes, env, loop,
                   traffic>>

\* the interval timer fires and runs cleanup()
CleanupSweep ==
    /\ MayCall
    /\ LoopIdle
    /\ timers # {}
    /\ store' = cleanup(store, now)
    /\ hist' = Record([op |-> "cleanup", id |-> "", configs |-> <<>>,
                        t |-> now, res |-> Void,
                        pre |-> store, post |-> store'])
    /\ solo' = [i \in DOMAIN solo |-> cleanup(solo[i], now)]
    /\ soloRes' = Void
    /\ UNCHANGED <<timer, shadow, mw, now, env, loop>>

---------------------------------------------------------------------------
(* Specifications.                                                         *)

\* the middleware module is loaded: new Map()
InitMiddleware ==
    /\ rateLimitStore = EmptyStore
    /\ traffic = [ip \in ClientIps |-> NoTraffic]

\* new RateLimitStore(): the handle of the interval timer that
\* startCleanup() has set
InitTimer ==
    /\ cleanupInterval = Timeout
    /\ timers = {Timeout}

\* the run without sweeps is not followed
InitShadow ==
    /\ unswept = Untracked
    /\ unsweptRes = Void

InitCommon ==
    /\ InitMiddleware
    /\ InitTimer
    /\ InitShadow
    /\ now = 0
    /\ store = EmptyStore
    /\ hist = <<>>
    /\ solo = [i \in Ids |-> EmptyStore]
    /\ soloRes = Void
    /\ tasks = [r \in Tasks |-> IdleTask]
    /\ running = 0

\* one identifier checked under one policy, every call remembered
InitSingle ==
    /\ InitCommon
    /\ ids = {"A"}
    /\ \E p \in Policies : policies = {p} /\ times = TimesFor(p)
    /\ keep = 0

NextSingle == Tick \/ CheckRateLimitCall

SpecSingle == InitSingle /\ [][NextSingle]_vars

\* one identifier under one policy, checked and reset; the latest two
\* calls are remembered
InitReset ==
    /\ InitCommon
    /\ ids = {"A"}
    /\ \E p \in Policies : policies = {p} /\ times = TimesFor(p)
    /\ keep = 2

NextReset == Tick \/ CheckRateLimitCall \/ ResetRateLimitCall

SpecReset == InitReset /\ [][NextReset]_vars

\* two identifiers under two policies of one window: checks, multiple
\* checks and resets; the latest call is remembered
InitMulti ==
    /\ InitCommon
    /\ ids = Ids
    /\ policies = {PC, PE}
    /\ times = {0} \cup Sampled({PC.windowMs})
    /\ keep = 1

NextMulti ==
    \/ Tick
    \/ CheckRateLimitCall
    \/ CheckMultipleRateLimitsCall
    \/ ResetRateLimitCall

SpecMulti == InitMulti /\ [][NextMulti]_vars

\* two identifiers, a short-window and a long-window policy, and the
\* cleanup sweep; the latest call is remembered
InitSweep ==
    /\ InitCommon
    /\ ids = Ids
    /\ policies = {PC, PD}
    /\ times = LongTimes
    /\ keep = 1

NextSweep == Tick \/ CheckRateLimitCall \/ CleanupSweep

SpecSweep == InitSweep /\ [][NextSweep]_vars

\* requests of one identifier under one policy that overlap in the event
\* loop, with resets and sweeps; the latest two calls are remembered
InitConc ==
    /\ InitCommon
    /\ ids = {"A"}
    /\ policies = {PE}
    /\ times = {0, RetentionMs}
    /\ keep = 2

NextConc ==
    \/ Tick
    \/ \E r \in Tasks : Arrive(r)
    \/ \E r \in Tasks : Begin(r)
    \/ \E r \in Tasks : Finish(r)
    \/ ResetRateLimitCall
    \/ CleanupSweep

SpecConc == InitConc /\ [][NextConc]_vars

\* one identifier checked, reset and queried under two policies that differ
\* in quota and window, on a clock that starts at a positive instant; the
\* latest call is remembered
InitStatus ==
    /\ InitMiddleware
    /\ InitTimer
    /\ InitShadow
    /\ now = Epoch
    /\ store = EmptyStore
    /\ hist = <<>>
    /\ solo = [i \in Ids |-> EmptyStore]
    /\ soloRes = Void
    /\ tasks = [r \in Tasks |-> IdleTask]
    /\ running = 0
    /\ ids = {"A"}
    /\ policies = {PA, PC}
    /\ times = {Epoch + d : d \in Sampled({0, PC.windowMs, PA.windowMs})}
    /\ keep = 1

NextStatus ==
    \/ Tick
    \/ CheckRateLimitCall
    \/ CheckMultipleRateLimitsCall
    \/ ResetRateLimitCall
    \/ GetRateLimitStatusCall

SpecStatus == InitStatus /\ [][NextStatus]_vars

\* one identifier checked under one policy with a non-positive maxRequests
\* or windowMs, every call remembered
InitBadConfig ==
    /\ InitCommon
    /\ ids = {"A"}
    /\ \E p \in BadPolicies : policies = {p} /\ times = TimesFor(p)
    /\ keep = 0

SpecBadConfig == InitBadConfig /\ [][NextSingle]_vars

\* one identifier checked under two policies that differ in quota and
\* window, by single and by multiple checks, every call remembered
InitShared ==
    /\ InitCommon
    /\ ids = {"A"}
    /\ policies = {PA, PC}
    /\ times = Sampled({0, PC.windowMs})
    /\ keep = 0

NextShared == Tick \/ CheckRateLimitCall \/ CheckMultipleRateLimitsCall

SpecShared == InitShared /\ [][NextShared]_vars

\* the middleware: requests of a busy client and of others, at the start
\* and at the last millisecond of the window opened at 0 and five minutes
\* after it; the latest request is remembered
InitMw ==
    /\ InitCommon
    /\ ids = {}
    /\ policies = {}
    /\ times = {0, WindowMs - 1, FiveMinutes + WindowMs}
    /\ keep = 1

NextMw == Tick \/ MiddlewareRequest \/ MiddlewareCleanup

SpecMw == InitMw /\ [][NextMw]_vars

\* one identifier checked, queried and reset under a short-window policy
\* and a policy whose window is the retention horizon, with the sweep, and
\* beside it the run of the same calls without the sweep; the latest call
\* is remembered
InitTransparent ==
    /\ InitMiddleware
    /\ InitTimer
    /\ now = Epoch
    /\ store = EmptyStore
    /\ unswept = EmptyStore
    /\ unsweptRes = Void
    /\ hist = <<>>
    /\ solo = [i \in Ids |-> EmptyStore]
    /\ soloRes = Void
    /\ tasks = [r \in Tasks |-> IdleTask]
    /\ running = 0
    /\ ids = {"A"}
    /\ policies = {PC, PH}
    /\ times = {Epoch + d : d \in LongTimes}
    /\ keep = 1

NextTransparent ==
    \/ Tick
    \/ CheckRateLimitCall
    \/ GetRateLimitStatusCall
    \/ ResetRateLimitCall
    \/ CleanupSweep

SpecTransparent == InitTransparent /\ [][NextTransparent]_vars

\* two identifiers under the long-window policy, clients that go away,
\* and the sweep of a timer that keeps firing while time passes; the
\* latest call is remembered
InitLive ==
    /\ InitCommon
    /\ ids = Ids
    /\ policies = {PD}
    /\ times = LongTimes
    /\ keep = 1

NextLive == Tick \/ CheckRateLimitCall \/ Leave \/ CleanupSweep

\* setInterval fires its callback again and again (lines 50-52), and
\* Date.now() goes on
SpecLive ==
    /\ InitLive
    /\ [][NextLive]_vars
    /\ WF_vars(Tick)
    /\ WF_vars(CleanupSweep)

\* one identifier checked under a policy of maxRequests 0, whose denial
\* on an empty log stores blocked = true with blockUntil = NaN, and under
\* a policy in range, with the sweep; the latest call is remembered
InitDefensive ==
    /\ InitCommon
    /\ ids = {"A"}
    /\ policies = {P0, PE}
    /\ times = TimesFor(PE)
    /\ keep = 1

SpecDefensive == InitDefensive /\ [][NextSweep]_vars

\* two identifiers checked, queried and reset under one policy, the
\* statistics, the sweep, destroy() and the exit of the process; the
\* latest call is remembered
InitAdmin ==
    /\ InitCommon
    /\ ids = Ids
    /\ policies = {PC}
    /\ times = Sampled({0, RetentionMs})
    /\ keep = 1

NextAdmin ==
    \/ Tick
    \/ CheckRateLimitCall
    \/ GetRateLimitStatusCall
    \/ ResetRateLimitCall
    \/ GetRateLimitStatsCall
    \/ CleanupSweep
    \/ Destroy
    \/ ProcessExit

SpecAdmin == InitAdmin /\ [][NextAdmin]_vars

\* one identifier under one policy, checked, queried and reset; the
\* latest two calls are remembered
NextAgree ==
    \/ Tick
    \/ CheckRateLimitCall
    \/ GetRateLimitStatusCall
    \/ ResetRateLimitCall

SpecAgree == InitReset /\ [][NextAgree]_vars

\* keys composed for identifiers and endpoints with and without colons;
\* the latest two calls are remembered
InitKey ==
    /\ InitCommon
    /\ ids = {}
    /\ policies = {}
    /\ times = {0}
    /\ keep = 2

NextKey == CreateRateLimitKeyCall

SpecKey == InitKey /\ [][NextKey]_vars

---------------------------------------------------------------------------
(* Reading the history.                                                    *)

Calls == 1..Len(hist)

\* call i is checkRateLimit(identifier, config)
IsCheck(i, identifier, config) ==
    /\ hist[i].op = "check"
    /\ hist[i].id = identifier
    /\ hist[i].configs = <<config>>

\* the log of the identifier of call i, after and before the call
LogAfter(i) == hist[i].post
LogBefore(i) == hist[i].pre

\* the admitted calls of (identifier, config) made at a time in [lo, hi)
AdmittedIn(identifier, config, lo, hi) ==
    {i \in Calls : /\ IsCheck(i, identifier, config)
                   /\ hist[i].res.allowed
                   /\ lo <= hist[i].t /\ hist[i].t < hi}

---------------------------------------------------------------------------
(* Claims about one identifier under one policy (SpecSingle).              *)

\* C1: for an identifier checked under one policy P, the calls that were
\* allowed and made inside one span of P.windowMs milliseconds are never
\* more than P.maxRequests.
C1_QuotaInvariant ==
    \A identifier \in ids, config \in policies : \A i \in Calls :
        Cardinality(AdmittedIn(identifier, config, hist[i].t,
                               hist[i].t + config.windowMs))
            <= config.maxRequests

\* C1 witness: a policy's quota was used up inside one window and a later
\* call inside that window was made (and turned away).
C1_Witness ==
    \E identifier \in ids, config \in policies : \E i, j \in Calls :
        /\ Cardinality(AdmittedIn(identifier, config, hist[i].t,
                                  hist[i].t + config.windowMs))
               = config.maxRequests
        /\ IsCheck(j, identifier, config)
        /\ ~hist[j].res.allowed
        /\ hist[j].t > hist[i].t
        /\ hist[j].t < hist[i].t + config.windowMs

\* C3: after a denial of identifier I under P stored blockUntil = B, every
\* later checkRateLimit(I, P) made at a time before B is denied with
\* remaining = 0 and resetAt = B, and leaves the stored log as it was.
C3_BlockingLatch ==
    \A i, j \in Calls :
        (/\ i < j
         /\ hist[i].op = "check" /\ ~hist[i].res.allowed
         /\ IsCheck(j, hist[i].id, hist[i].configs[1])
         /\ hist[j].t < LogAfter(i).blockUntil)
        => /\ ~hist[j].res.allowed
           /\ hist[j].res.remaining = 0
           /\ hist[j].res.resetAt = LogAfter(i).blockUntil
           /\ LogAfter(j) = LogBefore(j)
           /\ LogAfter(j) = LogAfter(i)

\* C3 witness: a denial, then time passes, then two more calls before
\* blockUntil.
C3_Witness ==
    \E i, j, k \in Calls :
        /\ i < j /\ j < k
        /\ hist[i].op = "check" /\ ~hist[i].res.allowed
        /\ IsCheck(j, hist[i].id, hist[i].configs[1])
        /\ IsCheck(k, hist[i].id, hist[i].configs[1])
        /\ hist[i].t < hist[j].t
        /\ hist[k].t < LogAfter(i).blockUntil
        /\ ~hist[k].res.allowed

\* call j is the first call of its identifier made strictly after the
\* blockUntil that the denial i stored
FirstAfterBlock(i, j) ==
    /\ i < j
    /\ hist[i].op = "check" /\ ~hist[i].res.allowed
    /\ IsCheck(j, hist[i].id, hist[i].configs[1])
    /\ hist[j].t > LogAfter(i).blockUntil
    /\ \A k \in Calls : (i < k /\ k < j) => hist[k].t <= LogAfter(i).blockUntil

\* C4 as stated: the first checkRateLimit(I, P) made strictly after the
\* blockUntil of a denial is allowed and leaves the stored log with
\* blocked = false.
C4_AsStated ==
    \A i, j \in Calls :
        FirstAfterBlock(i, j) => /\ hist[j].res.allowed
                                 /\ LogAfter(j).blocked = FALSE

\* call j is the first call of its identifier made at or after the
\* blockUntil that the denial i stored
FirstSinceBlockEnd(i, j) ==
    /\ i < j
    /\ hist[i].op = "check" /\ ~hist[i].res.allowed
    /\ IsCheck(j, hist[i].id, hist[i].configs[1])
    /\ hist[j].t >= LogAfter(i).blockUntil
    /\ \A k \in Calls : (i < k /\ k < j) => hist[k].t < LogAfter(i).blockUntil

\* C4 amended: the first checkRateLimit(I, P) made at or after the
\* blockUntil of a denial (the block ends at blockUntil itself) is allowed
\* and leaves the stored log with blocked = false.
C4_PostBlockRecovery ==
    \A i, j \in Calls :
        FirstSinceBlockEnd(i, j) => /\ hist[j].res.allowed
                                    /\ LogAfter(j).blocked = FALSE

\* C4 witness: maxRequests = 3, windowMs = 1000: three calls at t = 0, a
\* fourth at t = 0 (denied), and a call at t = 1001.
C4_Witness ==
    /\ Len(hist) = 5
    /\ \A i \in 1..5 : IsCheck(i, "A", PB)
    /\ \A i \in 1..4 : hist[i].t = 0
    /\ hist[5].t = 1001
    /\ FirstSinceBlockEnd(4, 5)
    /\ \A i \in 1..3 : hist[i].res.allowed
    /\ ~hist[4].res.allowed

\* the calls made are checkRateLimit("A", PA) at t = 0, 100, 200 and 5001
ScenarioC5 ==
    /\ Len(hist) = 4
    /\ \A i \in 1..4 : IsCheck(i, "A", PA)
    /\ <<hist[1].t, hist[2].t, hist[3].t, hist[4].t>> = <<0, 100, 200, 5001>>

ScenarioC5Head ==
    /\ hist[1].res.allowed /\ hist[1].res.remaining = 1
    /\ hist[2].res.allowed /\ hist[2].res.remaining = 0
    /\ ~hist[3].res.allowed /\ hist[3].res.resetAt = 5000

\* C5 as stated: with {maxRequests: 2, windowMs: 5000} and a fresh
\* identifier, the calls at t = 0, 100, 200, 5001 return Allowed with
\* remaining = 1, Allowed with remaining = 0, Denied with resetAt = 5000,
\* and Allowed with remaining = 1.
C5_AsStated ==
    ScenarioC5 => /\ ScenarioC5Head
                  /\ hist[4].res.allowed /\ hist[4].res.remaining = 1

\* C5 amended: the same calls return Allowed with remaining = 1, Allowed
\* with remaining = 0, Denied with resetAt = 5000, and Allowed with
\* remaining = 0: the request of t = 100 is still inside the window at
\* t = 5001.
C5_Scenario ==
    ScenarioC5 => /\ ScenarioC5Head
                  /\ hist[4].res.allowed /\ hist[4].res.remaining = 0
                  /\ LogAfter(4).timestamps = <<100, 5001>>

C5_Witness == ScenarioC5

\* the admitted calls of (identifier, config) in the window trailing call j
TrailingAdmitted(j) ==
    {i \in Calls : /\ i < j
                   /\ IsCheck(i, hist[j].id, hist[j].configs[1])
                   /\ hist[i].res.allowed
                   /\ hist[j].t - hist[i].t < hist[j].configs[1].windowMs}

\* C6: from a never-seen identifier, the first maxRequests calls made
\* within one window are allowed, the k-th with remaining = maxRequests - k;
\* the next call in that window is denied and sets blocked; and no call is
\* denied while fewer than maxRequests calls were admitted in the window
\* trailing it.
C6_ExactAdmission ==
    \A config \in policies :
      (\A i \in Calls : IsCheck(i, "A", config)) =>
        /\ \A k \in Calls :
             (k <= config.maxRequests
              /\ hist[k].t - hist[1].t < config.windowMs)
             => /\ hist[k].res.allowed
                /\ hist[k].res.remaining = config.maxRequests - k
        /\ \A k \in Calls :
             (k = config.maxRequests + 1
              /\ hist[k].t - hist[1].t < config.windowMs)
             => /\ ~hist[k].res.allowed
                /\ LogAfter(k).blocked = TRUE
        /\ \A j \in Calls :
             ~hist[j].res.allowed
             => Cardinality(TrailingAdmitted(j)) >= config.maxRequests

\* C6 witness: the quota was used up at different instants of one window,
\* the next call was denied, and a later call was admitted again.
C6_Witness ==
    \E config \in policies :
        /\ config.maxRequests >= 2
        /\ Len(hist) >= config.maxRequests + 2
        /\ \A i \in Calls : IsCheck(i, "A", config)
        /\ hist[config.maxRequests].t > hist[1].t
        /\ hist[config.maxRequests + 1].t - hist[1].t < config.windowMs
        /\ ~hist[config.maxRequests + 1].res.allowed
        /\ hist[Len(hist)].res.allowed

---------------------------------------------------------------------------
(* Claims about several identifiers, resets, multiple checks and sweeps.   *)

Last == hist[Len(hist)]

\* C7: for distinct identifiers A and B, the calls on A (checkRateLimit,
\* checkMultipleRateLimits, resetRateLimit) leave the stored log of B as it
\* is in the run in which the calls on A are never made, and every call
\* returns what it returns in the run in which only its own identifier is
\* ever named.
C7_Independence ==
    /\ \A i \in Ids : Get(store, i) = Get(solo[i], i)
    /\ hist # <<>> => Last.res = soloRes

\* C7 witness: both identifiers have a log, A is blocked and B is not, and
\* the latest call, made after time has passed, is an admitted call on B.
C7_Witness ==
    /\ Has(store, "A") /\ Has(store, "B")
    /\ store["A"].blocked /\ store["A"].blockUntil > now
    /\ hist # <<>>
    /\ Last.id = "B" /\ Last.op \in {"check", "multi"}
    /\ Last.res.allowed
    /\ Last.t > 0
    /\ Len(store["B"].timestamps) > 1

\* C8: resetRateLimit(id) leaves a fresh empty log whether or not the
\* identifier was known; a checkRateLimit(id, P) that follows it is allowed
\* with remaining = P.maxRequests - 1 whatever the log held before the reset;
\* and a second reset leaves the state of the first.
C8_Reset ==
    /\ \A i \in Calls :
         hist[i].op = "reset" => hist[i].post = FreshLog
    /\ (hist # <<>> /\ Last.op = "reset") => Get(store, Last.id) = FreshLog
    /\ \A i \in Calls :
         (/\ i + 1 \in Calls
          /\ hist[i].op = "reset"
          /\ hist[i + 1].op = "check"
          /\ hist[i + 1].id = hist[i].id)
         => /\ hist[i + 1].res.allowed
            /\ hist[i + 1].res.remaining
                 = hist[i + 1].configs[1].maxRequests - 1
    /\ \A i \in Calls :
         (/\ i + 1 \in Calls
          /\ hist[i].op = "reset"
          /\ hist[i + 1].op = "reset"
          /\ hist[i + 1].id = hist[i].id)
         => /\ hist[i + 1].pre = hist[i].post
            /\ hist[i + 1].post = hist[i].post

\* C8 witness: an identifier under an active block is reset and the check
\* that follows is admitted.
C8_Witness ==
    /\ Len(hist) = 2
    /\ hist[1].op = "reset"
    /\ hist[1].pre # NoLog
    /\ hist[1].pre.blocked /\ hist[1].pre.blockUntil > hist[1].t
    /\ hist[2].op = "check" /\ hist[2].id = hist[1].id
    /\ hist[2].t = hist[1].t
    /\ hist[2].res.allowed

\* C8 witness of the unknown identifier: a reset of an identifier the
\* store does not hold, followed by a second reset.
C8_WitnessUnknown ==
    /\ Len(hist) = 2
    /\ hist[1].op = "reset" /\ hist[1].pre = NoLog
    /\ hist[2].op = "reset"
    /\ Get(store, hist[2].id) = FreshLog

\* the log has a timestamp newer than one hour before t
RecentAt(log, t) ==
    \E k \in 1..Len(log.timestamps) : t - log.timestamps[k] < 60 * 60 * 1000

\* the log is under a block that has not ended at t
BlockedAt(log, t) == log.blocked /\ log.blockUntil > t

\* C9: right after a cleanup sweep at time t, an identifier that had no
\* timestamp newer than t - 1 hour and was not actively blocked is absent
\* from the store; an identifier that was actively blocked is still there
\* with its log unchanged; an identifier with a timestamp newer than the
\* horizon is still there.
C9_CleanupSafety ==
    \A i \in Calls :
        hist[i].op = "cleanup" =>
            /\ \A k \in DOMAIN hist[i].pre :
                 LET log == hist[i].pre[k]
                 IN  /\ (~RecentAt(log, hist[i].t) /\ ~BlockedAt(log, hist[i].t))
                          => ~Has(hist[i].post, k)
                     /\ BlockedAt(log, hist[i].t)
                          => Get(hist[i].post, k) = log
                     /\ RecentAt(log, hist[i].t) => Has(hist[i].post, k)
            /\ DOMAIN hist[i].post \subseteq DOMAIN hist[i].pre
            /\ (i = Len(hist) /\ now = hist[i].t) => store = hist[i].post

\* C9 witness: a sweep has just removed one identifier and kept another
\* that is blocked and has no timestamp inside the horizon.
C9_Witness ==
    /\ hist # <<>>
    /\ Last.op = "cleanup" /\ Last.t = now
    /\ \E i, j \in Ids :
         /\ Has(Last.pre, i) /\ ~Has(store, i)
         /\ Has(store, j)
         /\ BlockedAt(store[j], now)
         /\ ~RecentAt(store[j], now)

\* C10 as stated: in checkMultipleRateLimits(id, [P1, P2]) with P1 lenient
\* (more requests per window than P2, and room left) and the quota of P2
\* for id used up, the call is denied with the message of P2 and one more
\* timestamp is recorded for P1.
C10_AsStated ==
    \A i \in Calls :
        (/\ hist[i].op = "multi"
         /\ Len(hist[i].configs) = 2
         /\ hist[i].configs[1].maxRequests > hist[i].configs[2].maxRequests
         /\ hist[i].configs[1].windowMs = hist[i].configs[2].windowMs
         /\ InWindow(hist[i].pre, hist[i].configs[1], hist[i].t)
              < hist[i].configs[1].maxRequests
         /\ InWindow(hist[i].pre, hist[i].configs[2], hist[i].t)
              >= hist[i].configs[2].maxRequests)
        => /\ ~hist[i].res.allowed
           /\ hist[i].res.message = DenialMessage(hist[i].configs[2])
           /\ InWindow(hist[i].post, hist[i].configs[1], hist[i].t)
                = InWindow(hist[i].pre, hist[i].configs[1], hist[i].t) + 1

---------------------------------------------------------------------------
(* Claims about requests that overlap in the event loop (SpecConc).        *)

\* calls i and i + 1 are checks of one identifier under one policy that
\* both arrived at the same instant, when the in-window count was
\* maxRequests - 1, and both ran at that instant, the first of them on
\* that count (no reset came between)
ConcurrentAtBoundary(i) ==
    /\ i + 1 \in Calls
    /\ hist[i].op = "check" /\ hist[i + 1].op = "check"
    /\ hist[i + 1].id = hist[i].id
    /\ hist[i + 1].configs = hist[i].configs
    /\ hist[i].seen = hist[i].configs[1].maxRequests - 1
    /\ hist[i + 1].seen = hist[i].seen
    /\ hist[i + 1].arrived = hist[i].arrived
    /\ hist[i].t = hist[i].arrived
    /\ hist[i + 1].t = hist[i].arrived
    /\ InWindow(hist[i].pre, hist[i].configs[1], hist[i].t) = hist[i].seen

\* no call, reset or sweep writes the entry of an identifier while a
\* checkRateLimit on it is between its read and its write
NoInterference ==
    /\ \A r \in Tasks :
         tasks[r].pc = "running" =>
            /\ running = r
            /\ Get(store, tasks[r].id) = tasks[r].read
    /\ Cardinality({r \in Tasks : tasks[r].pc = "running"}) <= 1

\* of two requests that overlap at the boundary of the quota, at most one
\* is admitted
NotBothAdmitted ==
    \A i \in Calls :
        ConcurrentAtBoundary(i)
        => ~(hist[i].res.allowed /\ hist[i + 1].res.allowed)

\* C2: the read-purge-decide-write sequence of checkRateLimit is one
\* indivisible step with respect to every other checkRateLimit, reset and
\* sweep, so two concurrent requests for one identifier that arrive when
\* its in-window count is maxRequests - 1 are never both admitted.
C2_Atomicity == NoInterference /\ NotBothAdmitted

\* C2 witness: two requests arrived together after one admitted request,
\* when one place was left; the first was admitted and the second denied.
C2_Witness ==
    /\ Len(hist) = 2
    /\ ConcurrentAtBoundary(1)
    /\ hist[1].pre # NoLog
    /\ hist[1].seen = 1
    /\ hist[1].res.allowed
    /\ ~hist[2].res.allowed

---------------------------------------------------------------------------
(* Claims about checkMultipleRateLimits and getRateLimitStatus.            *)

\* the store that holds, for one identifier, the log a call found
StoreOf(identifier, log) ==
    IF log = NoLog THEN EmptyStore ELSE Set(EmptyStore, identifier, log)

\* how many of the stored timestamps of a log are the instant t
CountAt(log, t) ==
    IF log = NoLog THEN 0
    ELSE Cardinality({k \in 1..Len(log.timestamps) : log.timestamps[k] = t})

\* call i is checkMultipleRateLimits(id, <<p, q>>) and behaves as the two
\* checks in list order do
TwoPolicies(i) ==
    LET e  == hist[i]
        r1 == checkRateLimit(StoreOf(e.id, e.pre), e.id, e.configs[1], e.t)
        r2 == checkRateLimit(r1.store, e.id, e.configs[2], e.t)
    IN  IF ~r1.res.allowed
        THEN /\ e.res = r1.res
             /\ e.res.remaining = 0
             /\ e.post = Get(r1.store, e.id)
             /\ CountAt(e.post, e.t) = CountAt(e.pre, e.t)
        ELSE IF ~r2.res.allowed
        THEN /\ e.res = r2.res
             /\ e.res.remaining = 0
             /\ e.res.message = DenialMessage(e.configs[2])
             /\ e.post = Get(r2.store, e.id)
             /\ CountAt(e.post, e.t) = CountAt(e.pre, e.t) + 1
        ELSE /\ e.res = [allowed |-> TRUE, remaining |-> -1,
                         resetAt |-> e.t, message |-> ""]
             /\ e.post = Get(r2.store, e.id)
             /\ CountAt(e.post, e.t) = CountAt(e.pre, e.t) + 2

\* C11: checkMultipleRateLimits evaluates the policies in list order with
\* checkRateLimit and returns the first denied result unchanged (remaining
\* = 0), the later policies leaving no trace; when no policy denies, the
\* empty list included, it returns allowed = true, remaining = -1 and
\* resetAt = now; the timestamps appended for the policies that passed
\* before a denying one stay in the log.
C11_MultiOrder ==
    \A i \in Calls :
        hist[i].op = "multi" =>
            IF hist[i].configs = <<>>
            THEN /\ hist[i].res = [allowed |-> TRUE, remaining |-> -1,
                                   resetAt |-> hist[i].t, message |-> ""]
                 /\ hist[i].post = hist[i].pre
            ELSE TwoPolicies(i)

\* C11 witness: a multiple check whose first policy passed and recorded the
\* request and whose second policy denied, on a log that already held a
\* request of an earlier instant.
C11_Witness ==
    /\ hist # <<>>
    /\ Last.op = "multi" /\ Len(Last.configs) = 2
    /\ ~Last.res.allowed
    /\ Last.res.message = DenialMessage(Last.configs[2])
    /\ Last.pre # NoLog
    /\ Len(Last.pre.timestamps) > 0
    /\ CountAt(Last.post, Last.t) = CountAt(Last.pre, Last.t) + 1

\* the stored timestamps of a log that lie inside the window of a policy
Recent(log, config, t) ==
    {log.timestamps[k] : k \in {j \in 1..Len(log.timestamps) :
                                   t - log.timestamps[j] < config.windowMs}}

Oldest(S) == CHOOSE x \in S : \A y \in S : x <= y

\* C12: getRateLimitStatus(id, P) never changes the store (it creates no
\* entry, stores no purge and leaves blocked and blockUntil as they are) and
\* returns current = the number of stored timestamps t with now - t <
\* windowMs, max = maxRequests, remaining = max(0, max - current) and
\* resetAt = the oldest in-window timestamp + windowMs; for an identifier
\* with no log it returns current = 0, remaining = maxRequests and resetAt =
\* now + windowMs.
C12_StatusReadOnly ==
    /\ (hist # <<>> /\ Last.op = "status")
         => /\ Get(store, Last.id) = Last.pre
            /\ Last.pre = NoLog => store = EmptyStore
    /\ \A i \in Calls :
         hist[i].op = "status" =>
            LET e == hist[i]
                config == e.configs[1]
                current == InWindow(e.pre, config, e.t)
            IN  /\ e.post = e.pre
                /\ e.res.current = current
                /\ e.res.max = config.maxRequests
                /\ e.res.remaining = (IF config.maxRequests > current
                                      THEN config.maxRequests - current
                                      ELSE 0)
                /\ e.pre = NoLog => e.res.resetAt = e.t + config.windowMs
                /\ (e.pre # NoLog /\ current > 0)
                     => e.res.resetAt
                          = Oldest(Recent(e.pre, config, e.t)) + config.windowMs

\* C12 witness: a status query on a blocked log that holds more timestamps
\* inside the window of the policy than the policy admits, the oldest of
\* them older than now.
C12_Witness ==
    /\ hist # <<>>
    /\ Last.op = "status"
    /\ Last.pre # NoLog
    /\ Last.pre.blocked
    /\ Last.res.current > Last.res.max
    /\ Last.res.remaining = 0
    /\ Last.res.resetAt < Last.t + Last.configs[1].windowMs

\* C12 witness of the purge: a status query on a log that holds a timestamp
\* outside the window of the policy and one inside it.
C12_WitnessStale ==
    /\ hist # <<>>
    /\ Last.op = "status"
    /\ Last.pre # NoLog
    /\ Len(Last.pre.timestamps) > Last.res.current
    /\ Last.res.current > 0

\* C12 witness of the unknown identifier: a status query on an empty store.
C12_WitnessUnknown ==
    /\ hist # <<>>
    /\ Last.op = "status"
    /\ Last.pre = NoLog
    /\ Last.t > Epoch

---------------------------------------------------------------------------
(* Claims about policies out of range (SpecBadConfig).                     *)

\* the result is a RateLimitResult: an allow or deny decision
IsDecision(res) == "allowed" \in DOMAIN res

\* C13 as stated: a policy with maxRequests <= 0 or windowMs <= 0 is
\* rejected with a configuration error: checkRateLimit never returns an
\* allow or deny decision for such a policy.
C13_AsStated ==
    \A i \in Calls :
        (/\ hist[i].op = "check"
         /\ \/ hist[i].configs[1].maxRequests <= 0
            \/ hist[i].configs[1].windowMs <= 0)
        => ~IsDecision(hist[i].res)

---------------------------------------------------------------------------
(* Invariants of the stored logs.                                          *)

\* blockUntil holds a number
IsSet(blockUntil) == blockUntil \notin {Undefined, NaN}

\* call i wrote the log of its identifier
Wrote(i) == hist[i].post # hist[i].pre

\* C14: with policies of maxRequests >= 1 and windowMs >= 1 and a clock
\* that never goes back, a stored log with blocked = true has blockUntil
\* set, and the call that set blocked stored a blockUntil strictly greater
\* than the time at which it ran.
C14_BlockInvariant ==
    /\ \A k \in DOMAIN store :
         store[k].blocked => IsSet(store[k].blockUntil)
    /\ \A i \in Calls :
         (/\ hist[i].op \in {"check", "multi"}
          /\ Wrote(i)
          /\ hist[i].post.blocked)
         => /\ IsSet(hist[i].post.blockUntil)
            /\ hist[i].post.blockUntil > hist[i].t

\* C14 witness: a denial under the short-window policy has just set blocked
\* on a log whose oldest timestamp, recorded under the long-window policy,
\* had left the short window.
C14_Witness ==
    /\ hist # <<>>
    /\ Last.op = "check" /\ Wrote(Len(hist))
    /\ Last.pre # NoLog
    /\ Last.post.blocked
    /\ Len(Last.pre.timestamps) > Len(Last.post.timestamps)
    /\ store[Last.id] = Last.post

\* the identifier of a stored log is under a cool-down: a denial set
\* blockUntil, and blockUntil is still ahead
CoolingDown(log) == IsSet(log.blockUntil) /\ log.blockUntil > now

\* C15 as stated: in every reachable state the blocked flag of a stored log
\* is true exactly when a quota denial set blockUntil and blockUntil > now.
C15_AsStated ==
    \A k \in DOMAIN store : store[k].blocked <=> CoolingDown(store[k])

\* C15 amended: the blocked flag of a stored log is true whenever the
\* identifier is under a cool-down (a quota denial set blockUntil and
\* blockUntil > now), and it is true only if a quota denial set blockUntil;
\* it stays true after blockUntil has passed, until the next admitted call
\* or a reset clears it.
C15_BlockedFlag ==
    /\ \A k \in DOMAIN store :
         /\ CoolingDown(store[k]) => store[k].blocked
         /\ store[k].blocked => IsSet(store[k].blockUntil)
    /\ \A i \in Calls :
         /\ (hist[i].op = "check" /\ hist[i].res.allowed)
              => ~hist[i].post.blocked
         /\ hist[i].op = "reset" => ~hist[i].post.blocked
         /\ (/\ hist[i].op \in {"check", "multi"}
             /\ hist[i].pre # NoLog
             /\ hist[i].pre.blocked
             /\ ~hist[i].res.allowed)
              => hist[i].post.blocked

\* C15 witness: the blocked flag is still raised in the store although
\* blockUntil has passed.
C15_Witness ==
    \E k \in DOMAIN store :
        /\ store[k].blocked
        /\ IsSet(store[k].blockUntil)
        /\ store[k].blockUntil < now
        /\ hist # <<>> /\ Last.op = "check" /\ ~Last.res.allowed

\* every timestamp of the log is inside the window of the policy at time t
AllInWindow(log, config, t) ==
    \A k \in 1..Len(log.timestamps) : t - log.timestamps[k] < config.windowMs

\* C16 as stated: after each checkRateLimit(identifier, P) at time now,
\* whichever branch it took (blocked denial, quota denial or admission),
\* every timestamp retained in the stored log of the identifier satisfies
\* now - timestamp < P.windowMs.
C16_AsStated ==
    \A i \in Calls :
        (hist[i].op = "check" /\ hist[i].post # NoLog)
        => AllInWindow(hist[i].post, hist[i].configs[1], hist[i].t)

\* the log was found under a block that had not ended at t
ActivelyBlocked(log, t) ==
    /\ log # NoLog
    /\ log.blocked
    /\ IsSet(log.blockUntil)
    /\ log.blockUntil > t

\* C20: when checkRateLimit finds the identifier not actively blocked and
\* the in-window count at or above maxRequests, it sets blocked = true and
\* blockUntil = the oldest in-window timestamp + windowMs, returns allowed =
\* false, remaining = 0 and resetAt = blockUntil, with resetAt > now, and
\* does not record the denied request in timestamps.
C20_QuotaExceededStep ==
    \A i \in Calls :
        (/\ hist[i].op = "check"
         /\ ~ActivelyBlocked(hist[i].pre, hist[i].t)
         /\ InWindow(hist[i].pre, hist[i].configs[1], hist[i].t)
              >= hist[i].configs[1].maxRequests)
        => LET e == hist[i]
               config == e.configs[1]
               B == Oldest(Recent(e.pre, config, e.t)) + config.windowMs
           IN  /\ e.post.blocked = TRUE
               /\ e.post.blockUntil = B
               /\ e.res.allowed = FALSE
               /\ e.res.remaining = 0
               /\ e.res.resetAt = B
               /\ e.res.resetAt > e.t
               /\ Len(e.post.timestamps) = InWindow(e.pre, config, e.t)
               /\ CountAt(e.post, e.t) = CountAt(e.pre, e.t)
               /\ AllInWindow(e.post, config, e.t)

\* C20 witness: a quota denial on a log whose earlier block, set under the
\* other policy, had ended: the block is set again, with a later blockUntil.
C20_Witness ==
    /\ hist # <<>>
    /\ Last.op = "check"
    /\ Last.pre # NoLog
    /\ Last.pre.blocked
    /\ ~ActivelyBlocked(Last.pre, Last.t)
    /\ ~Last.res.allowed
    /\ Last.res.resetAt > Last.pre.blockUntil
    /\ Last.t > Epoch

\* C20 witness of the purge: a quota denial that dropped a timestamp which
\* had left the window.
C20_WitnessPurged ==
    /\ hist # <<>>
    /\ Last.op = "check"
    /\ Last.pre # NoLog
    /\ ~ActivelyBlocked(Last.pre, Last.t)
    /\ ~Last.res.allowed
    /\ Len(Last.pre.timestamps) > Len(Last.post.timestamps)

---------------------------------------------------------------------------
(* Claims about the sweep and the requests in flight (SpecConc).           *)

\* the sweep at tS and then the check at tC, from the store st
SweepThenCheck(st, identifier, config, tS, tC) ==
    checkRateLimit(cleanup(st, tS), identifier, config, tC)

\* the check at tC and then the sweep at tS, from the store st
CheckThenSweep(st, identifier, config, tS, tC) ==
    LET r == checkRateLimit(st, identifier, config, tC)
    IN  [store |-> cleanup(r.store, tS), res |-> r.res]

\* the latest two calls are a sweep and a check of a request that had
\* arrived when the sweep ran; st, c and s are the store before both, the
\* check and the sweep
Outcome(st, c, s) ==
    [store |-> store, res |-> c.res]
        \in {SweepThenCheck(st, c.id, c.configs[1], s.t, c.t),
             CheckThenSweep(st, c.id, c.configs[1], s.t, c.t)}

\* the newest timestamp of the log is inside the retention horizon at t
NewestInHorizon(log, t) ==
    /\ Len(log.timestamps) > 0
    /\ t - log.timestamps[Len(log.timestamps)] < 60 * 60 * 1000

\* C17: when a cleanup sweep and a checkRateLimit for the same identifier
\* overlap, the result of the check and the store they leave are those of
\* one of the two sequential orders (sweep then check, or check then
\* sweep); the timestamp recorded by an admitted request is not lost to
\* the sweep; and the sweep never deletes an entry whose newest timestamp
\* is inside the retention horizon.
C17_SweepVersusRequest ==
    /\ (/\ Len(hist) = 2
        /\ hist[1].op = "cleanup" /\ hist[2].op = "check"
        /\ hist[2].arrived <= hist[1].t)
         => Outcome(hist[1].pre, hist[2], hist[1])
    /\ (/\ Len(hist) = 2
        /\ hist[1].op = "check" /\ hist[2].op = "cleanup")
         => /\ Outcome(StoreOf(hist[1].id, hist[1].pre), hist[1], hist[2])
            /\ (hist[1].res.allowed /\ hist[2].t - hist[1].t < 60 * 60 * 1000)
                 => /\ Has(hist[2].post, hist[1].id)
                    /\ CountAt(hist[2].post[hist[1].id], hist[1].t)
                         = CountAt(hist[1].post, hist[1].t)
    /\ \A i \in Calls :
         hist[i].op = "cleanup" =>
            \A k \in DOMAIN hist[i].pre :
                NewestInHorizon(hist[i].pre[k], hist[i].t)
                => Get(hist[i].post, k) = hist[i].pre[k]
    /\ \A r \in Tasks :
         tasks[r].pc = "running" => Get(store, tasks[r].id) = tasks[r].read

\* C17 witness: a request arrived, the sweep then ran and removed the stale
\* entry of its identifier, and the check of the request then ran, was
\* admitted and recreated the entry.
C17_Witness ==
    /\ Len(hist) = 2
    /\ hist[1].op = "cleanup" /\ hist[2].op = "check"
    /\ hist[2].arrived < hist[1].t
    /\ Has(hist[1].pre, hist[2].id) /\ ~Has(hist[1].post, hist[2].id)
    /\ hist[2].pre = NoLog
    /\ hist[2].res.allowed
    /\ Get(store, hist[2].id).timestamps = <<hist[2].t>>

\* C17 witness of the other order: an admitted request and then a sweep,
\* at one instant, that kept the entry.
C17_WitnessKept ==
    /\ Len(hist) = 2
    /\ hist[1].op = "check" /\ hist[2].op = "cleanup"
    /\ hist[1].res.allowed
    /\ hist[1].t = hist[2].t
    /\ hist[1].t > 0
    /\ Has(store, hist[1].id)

---------------------------------------------------------------------------
(* Claims about several policies on one identifier (SpecShared).           *)

\* the calls on the identifier that were made under the policy (alone or
\* in a list) at a time in [lo, hi) and returned Allowed
AllowedUnder(identifier, config, lo, hi) ==
    {i \in Calls :
        /\ hist[i].op \in {"check", "multi"}
        /\ hist[i].id = identifier
        /\ \E k \in 1..Len(hist[i].configs) : hist[i].configs[k] = config
        /\ hist[i].res.allowed
        /\ lo <= hist[i].t /\ hist[i].t < hi}

\* C18 as stated: when one identifier is checked under two or more
\* policies of different windowMs or maxRequests, by separate checkRateLimit
\* calls or through checkMultipleRateLimits, the Allowed results returned
\* for calls under a policy P within any span of P.windowMs are never more
\* than P.maxRequests.
C18_AsStated ==
    \A identifier \in ids, config \in policies : \A i \in Calls :
        Cardinality(AllowedUnder(identifier, config, hist[i].t,
                                 hist[i].t + config.windowMs))
            <= config.maxRequests

---------------------------------------------------------------------------
(* Claims about the middleware (SpecMw).                                   *)

\* the window opened by the first checked request of the client is open
\* at time t
WindowOpen(ip, t) ==
    /\ traffic[ip].first # Undefined
    /\ t - traffic[ip].first < 60000

\* C19: when one client IP sends more than 60 requests to /api/ paths
\* within one window of 60000 ms, the first 60 pass the rate-limit check of
\* the middleware and every later request of that window is answered 429;
\* requests to other paths are never rate limited.
C19_MiddlewareLimit ==
    /\ \A ip \in ClientIps :
         WindowOpen(ip, now) =>
            traffic[ip].passed = (IF traffic[ip].sent <= 60
                                  THEN traffic[ip].sent ELSE 60)
    /\ (/\ hist # <<>>
        /\ Last.op = "request" /\ Last.checked
        /\ WindowOpen(Last.id, Last.t))
         => /\ Last.res.status = 429 <=> traffic[Last.id].sent > 60
            /\ Last.res.status # 429 => Last.res.status = 200
    /\ (hist # <<>> /\ Last.op = "request" /\ ~Last.api)
         => /\ Last.res.status # 429
            /\ Last.post = Last.pre

\* C19 witness: the busy client has sent 62 requests to /api/ paths, some
\* at the start of the window and some at its last millisecond; 60 passed
\* and the latest was answered 429.
C19_Witness ==
    /\ hist # <<>>
    /\ Last.op = "request" /\ Last.checked
    /\ Last.res.status = 429
    /\ WindowOpen(Last.id, Last.t)
    /\ Last.t > traffic[Last.id].first
    /\ traffic[Last.id].sent = 62
    /\ traffic[Last.id].passed = 60
    /\ Len(rateLimitStore[Last.id]) = 60
    /\ rateLimitStore[Last.id][60] = Last.t


---------------------------------------------------------------------------
(* Claims about the admission step (SpecStatus).                           *)

\* the timestamps of the log that was read, an absent log having none
TimestampsOf(log) == IF log = NoLog THEN <<>> ELSE log.timestamps

\* C21: when checkRateLimit admits a request at time now it appends now as
\* the last timestamp of the purged log, stores blocked = false, and
\* returns allowed = true with remaining = maxRequests - (the number of
\* timestamps after the append, all of them inside the window) and resetAt
\* = the oldest retained timestamp + windowMs, so that 0 <= remaining <=
\* maxRequests - 1 and resetAt > now.
C21_AdmissionStep ==
    \A i \in Calls :
        (hist[i].op = "check" /\ hist[i].res.allowed)
        => LET e == hist[i]
               config == e.configs[1]
               kept == SelectSeq(TimestampsOf(e.pre),
                                 LAMBDA x : e.t - x < config.windowMs)
           IN  /\ e.post.timestamps = Append(kept, e.t)
               /\ e.post.blocked = FALSE
               /\ AllInWindow(e.post, config, e.t)
               /\ e.res.remaining = config.maxRequests - Len(e.post.timestamps)
               /\ e.res.resetAt
                    = Oldest(Recent(e.post, config, e.t)) + config.windowMs
               /\ e.res.resetAt = e.post.timestamps[1] + config.windowMs
               /\ 0 <= e.res.remaining
               /\ e.res.remaining <= config.maxRequests - 1
               /\ e.res.resetAt > e.t

\* C21 witness: an admission on a log whose block had ended and which held
\* a timestamp that had left the window and one still inside it: the flag
\* is cleared, the stale timestamp dropped, and remaining is 0.
C21_Witness ==
    /\ hist # <<>>
    /\ Last.op = "check"
    /\ Last.res.allowed
    /\ Last.pre # NoLog
    /\ Last.pre.blocked
    /\ Len(Last.pre.timestamps) = 2
    /\ Len(Last.post.timestamps) = 2
    /\ Last.post.timestamps[1] < Last.t
    /\ Last.res.remaining = 0


---------------------------------------------------------------------------
(* Claims about the sweep and the decisions (SpecTransparent).             *)

\* what a caller reads of a RateLimitResult
Verdict(res) ==
    [allowed |-> res.allowed, remaining |-> res.remaining,
     resetAt |-> res.resetAt]

\* C22: for policies whose windowMs does not exceed the retention horizon
\* of one hour, the sweep is transparent to the decisions: every
\* checkRateLimit returns the result (allowed, remaining, resetAt) and
\* every getRateLimitStatus the value that the same call returns in the run
\* of the same calls in which no sweep ran.
C22_CleanupTransparent ==
    /\ (hist # <<>> /\ Last.op = "check")
         => Verdict(Last.res) = Verdict(unsweptRes)
    /\ (hist # <<>> /\ Last.op = "status")
         => Last.res = unsweptRes
    /\ \A config \in policies : config.windowMs <= RetentionMs

\* C22 witness: a check found no entry, a sweep having removed it, while
\* the run without sweeps still held the entry; the two runs returned the
\* same result and their logs differ.
C22_Witness ==
    /\ hist # <<>>
    /\ Last.op = "check"
    /\ Last.pre = NoLog
    /\ Last.t > Epoch
    /\ Has(unswept, Last.id)
    /\ unswept[Last.id] # store[Last.id]

\* C22 witness of the status: a status query on an identifier whose entry
\* a sweep had removed and which the run without sweeps still holds.
C22_WitnessStatus ==
    /\ hist # <<>>
    /\ Last.op = "status"
    /\ Last.pre = NoLog
    /\ Has(unswept, Last.id)
    /\ Len(unswept[Last.id].timestamps) > 0


---------------------------------------------------------------------------
(* Claims about the reclamation of memory (SpecLive).                      *)

\* the latest instant of the clock of the run
LatestTime == CHOOSE x \in times : \A y \in times : y <= x

\* no call names the identifier any more
Quiet(identifier) == identifier \notin ids

\* the clock of the run reaches an instant at which the newest timestamp of
\* the entry is older than the horizon and its block, if any, has ended
ComesDue(identifier) ==
    Has(store, identifier) =>
        LET log == store[identifier]
        IN  /\ \A k \in 1..Len(log.timestamps) :
                 log.timestamps[k] + RetentionMs <= LatestTime
            /\ (log.blocked /\ IsSet(log.blockUntil))
                 => log.blockUntil <= LatestTime

\* C23: if an identifier receives no further calls and the cleanup timer
\* keeps firing, then eventually (once its newest timestamp is older than
\* the one-hour horizon and its block, if any, has ended) its entry is
\* removed from the store and stays absent.
C23_Reclaimed ==
    \A identifier \in Ids :
        []((Quiet(identifier) /\ ComesDue(identifier))
             => <>[](~Has(store, identifier)))

\* C23 witness: the client of an identifier that had been blocked under the
\* long-window policy went away, and a sweep made after the block had ended
\* removed the entry.
C23_Witness ==
    /\ hist # <<>>
    /\ Last.op = "cleanup"
    /\ \E identifier \in Ids :
          /\ Quiet(identifier)
          /\ Has(Last.pre, identifier)
          /\ Last.pre[identifier].blocked
          /\ ~Has(store, identifier)
          /\ Cardinality(DOMAIN store) = 1


---------------------------------------------------------------------------
(* Claims about a raised flag without blockUntil (SpecDefensive).          *)

\* the log has blocked = true and no usable blockUntil
FlagWithoutUntil(log) ==
    /\ log # NoLog
    /\ log.blocked
    /\ ~Truthy(log.blockUntil)

\* C24: when the stored log has blocked = true and no usable blockUntil,
\* checkRateLimit treats the identifier as not blocked: it purges, decides
\* from the timestamps alone and returns an allow or deny decision (under a
\* policy with maxRequests >= 1 an admission); the sweep likewise treats
\* such a log as not blocked and keeps it only for its recent timestamps.
C24_FlagWithoutUntil ==
    /\ (hist # <<>> /\ Last.op = "check" /\ FlagWithoutUntil(Last.pre))
         => LET config == Last.configs[1]
                kept == SelectSeq(Last.pre.timestamps,
                                  LAMBDA x : Last.t - x < config.windowMs)
            IN  /\ IsDecision(Last.res)
                /\ Last.res.allowed <=> Len(kept) < config.maxRequests
                /\ config.maxRequests >= 1 => Last.res.allowed
                /\ Last.res.allowed
                     => /\ Last.post.timestamps = Append(kept, Last.t)
                        /\ Last.post.blocked = FALSE
                        /\ Last.res.remaining
                             = config.maxRequests - Len(kept) - 1
                        /\ Last.res.resetAt
                             = Append(kept, Last.t)[1] + config.windowMs
                /\ ~Last.res.allowed
                     => /\ Last.post.timestamps = kept
                        /\ Last.post.blocked = TRUE
                        /\ Last.res.remaining = 0
    /\ (hist # <<>> /\ Last.op = "cleanup")
         => \A k \in DOMAIN Last.pre :
                FlagWithoutUntil(Last.pre[k])
                => (Has(Last.post, k) <=> RecentAt(Last.pre[k], Last.t))

\* C24 witness: a check under the policy in range found the log with
\* blocked = true and blockUntil = NaN and admitted the request.
C24_Witness ==
    /\ hist # <<>>
    /\ Last.op = "check"
    /\ FlagWithoutUntil(Last.pre)
    /\ Last.pre.blockUntil = NaN
    /\ Last.configs[1] = PE
    /\ Last.res.allowed
    /\ Last.res.remaining = 1
    /\ store[Last.id].blocked = FALSE

\* C24 witness of the sweep: the sweep found the log with blocked = true
\* and blockUntil = NaN and removed it.
C24_WitnessSweep ==
    /\ hist # <<>>
    /\ Last.op = "cleanup"
    /\ \E k \in DOMAIN Last.pre :
          /\ FlagWithoutUntil(Last.pre[k])
          /\ ~Has(store, k)


---------------------------------------------------------------------------
(* Claims about the timer of the sweep and the statistics (SpecAdmin).     *)

\* the step is a call of the operation op
StepOf(op) ==
    /\ hist' # hist
    /\ hist'[Len(hist')].op = op

\* the handle and the timers of the runtime agree: one timer while the
\* handle is set, none once it is null
OneTimer ==
    /\ Cardinality(timers) <= 1
    /\ cleanupInterval # Null => timers = {cleanupInterval}
    /\ cleanupInterval = Null => timers = {}

\* the calls go on after destroy(): a check decides and writes the log, a
\* status query counts it, a reset replaces it
CallsWork ==
    (hist # <<>> /\ cleanupInterval = Null) =>
        /\ Last.op = "check"
             => /\ IsDecision(Last.res)
                /\ Last.res.allowed
                     <=> InWindow(Last.pre, Last.configs[1], Last.t)
                           < Last.configs[1].maxRequests
                /\ Last.post # NoLog
                /\ Last.res.allowed => CountAt(Last.post, Last.t) >= 1
        /\ Last.op = "status"
             => Last.res.current
                  = InWindow(Last.pre, Last.configs[1], Last.t)
        /\ Last.op = "reset" => Last.post = FreshLog

\* C25: the constructed store has exactly one cleanup timer; after
\* destroy() the handle is null and no sweep ever runs again; destroy()
\* called a second time changes nothing; the exit of the process calls
\* destroy(); and checkRateLimit, getRateLimitStatus and resetRateLimit
\* keep working on the store after destroy().
C25_TimerLifecycle ==
    /\ [](OneTimer /\ CallsWork)
    /\ [][/\ (StepOf("destroy") \/ StepOf("exit"))
               => /\ cleanupInterval' = Null
                  /\ timers' = {}
                  /\ store' = store
          /\ ((StepOf("destroy") \/ StepOf("exit")) /\ cleanupInterval = Null)
               => UNCHANGED <<cleanupInterval, timers, store>>
          /\ cleanupInterval = Null
               => /\ cleanupInterval' = Null
                  /\ ~StepOf("cleanup")]_vars

\* C25 witness: after destroy() the handle is null, no timer is left, the
\* store still holds the entries, and a check has been admitted at a later
\* instant.
C25_Witness ==
    /\ cleanupInterval = Null
    /\ timers = {}
    /\ hist # <<>>
    /\ Last.op = "check"
    /\ Last.res.allowed
    /\ Last.t >= RetentionMs
    /\ Cardinality(DOMAIN store) = 2

\* C25 witness of the second destroy(): destroy() found the handle null
\* after the exit of the process had cleared it, and the entries are still
\* in the store.
C25_WitnessTwice ==
    /\ hist # <<>>
    /\ Last.op = "destroy"
    /\ Last.found = Null
    /\ cleanupInterval = Null
    /\ timers = {}
    /\ DOMAIN store = Ids


\* the identifiers of the store that are under a block that has not ended
\* at t
BlockedKeys(st, t) == {k \in DOMAIN st : ActivelyBlocked(st[k], t)}

\* C26 as stated: getRateLimitStats returns totalKeys = the number of
\* identifiers in the store and blockedCount = the number of stored
\* identifiers that are actively blocked (blocked with blockUntil > now),
\* and does not change the store.
C26_AsStated ==
    (hist # <<>> /\ Last.op = "stats")
    => /\ Last.res.totalKeys = Cardinality(DOMAIN Last.pre)
       /\ Last.res.blockedCount = Cardinality(BlockedKeys(Last.pre, Last.t))
       /\ Last.post = Last.pre
       /\ store = Last.pre


---------------------------------------------------------------------------
(* Claims about the block latch and the window alone (SpecSingle).         *)

\* the sliding-window check of the middleware, which has no block latch,
\* run on the first n calls of the history with the quota and the window
\* of their policy: the map it leaves and its latest verdict
RECURSIVE LatchFree(_)
LatchFree(n) ==
    IF n = 0
    THEN [store |-> EmptyStore, within |-> TRUE]
    ELSE middlewareCheckRateLimit(LatchFree(n - 1).store, hist[n].id,
                                  hist[n].configs[1].maxRequests,
                                  hist[n].configs[1].windowMs, hist[n].t)

\* C27: for one identifier under one policy with maxRequests >= 1 and a
\* clock that never goes back, every checkRateLimit returns the verdict
\* that the latch-free sliding-window check of the middleware returns when
\* it is run on the same call times: the block latch never changes a
\* decision.
C27_LatchNeverDecides ==
    \A i \in Calls :
        hist[i].op = "check"
        => /\ hist[i].configs[1].maxRequests >= 1
           /\ hist[i].res.allowed = LatchFree(i).within

\* C27 witness: a call was denied on the latch alone (the blocked branch),
\* at an instant after the denial that set the block, and a later call,
\* made once the block had ended, was admitted.
C27_Witness ==
    \E i, j \in Calls :
        /\ i < j
        /\ hist[i].op = "check"
        /\ ActivelyBlocked(hist[i].pre, hist[i].t)
        /\ hist[i].t > hist[i - 1].t
        /\ ~hist[i].res.allowed
        /\ hist[j].res.allowed
        /\ ~LatchFree(i).within
        /\ Len(LatchFree(j).store[hist[j].id]) = Len(hist[j].post.timestamps)


---------------------------------------------------------------------------
(* Claims about the status and the decision (SpecAgree).                   *)

\* the latest two calls are op1 and then op2, on one identifier under one
\* policy at one instant
Together(op1, op2) ==
    /\ Len(hist) = 2
    /\ hist[1].op = op1 /\ hist[2].op = op2
    /\ hist[1].id = hist[2].id
    /\ hist[1].configs = hist[2].configs
    /\ hist[1].t = hist[2].t

\* C28: under one policy, getRateLimitStatus reports remaining > 0 at an
\* instant exactly when checkRateLimit at that instant returns allowed;
\* right after an admitted call the status has current = maxRequests - the
\* remaining that the call returned; and the status never reports
\* remaining > 0 for an identifier that is actively blocked.
C28_StatusAgrees ==
    /\ Together("status", "check")
         => (hist[1].res.remaining > 0 <=> hist[2].res.allowed)
    /\ (Together("check", "status") /\ hist[1].res.allowed)
         => hist[2].res.current
              = hist[2].configs[1].maxRequests - hist[1].res.remaining
    /\ (hist # <<>> /\ Last.op = "status"
          /\ ActivelyBlocked(Last.pre, Last.t))
         => Last.res.remaining = 0

\* C28 witness: the status reported remaining = 0 on an identifier under
\* a block and the check made at the same instant was denied.
C28_Witness ==
    /\ Together("status", "check")
    /\ ActivelyBlocked(hist[1].pre, hist[1].t)
    /\ hist[1].res.remaining = 0
    /\ ~hist[2].res.allowed

\* C28 witness of the agreement at the end of a window: at the instant at
\* which the oldest request left the window the status reported remaining
\* > 0 on a log whose block had just ended, and the check was admitted.
C28_WitnessAdmitted ==
    /\ Together("status", "check")
    /\ hist[1].pre # NoLog
    /\ hist[1].pre.blocked
    /\ hist[1].pre.blockUntil = hist[1].t
    /\ hist[1].res.remaining > 0
    /\ hist[2].res.allowed


---------------------------------------------------------------------------
(* Claims about one request under several policies (SpecShared).           *)

\* the checkMultipleRateLimits calls made before call i on its identifier
\* that returned Allowed and lie in the trailing window of the policy at
\* call i
EarlierAllowedMulti(i, config) ==
    {j \in 1..(i - 1) :
        /\ hist[j].op = "multi"
        /\ hist[j].id = hist[i].id
        /\ hist[j].res.allowed
        /\ hist[i].t - hist[j].t < config.windowMs}

\* C29 as stated: a checkMultipleRateLimits call with policies P1..Pk
\* (each maxRequests >= 1) is Allowed whenever, for every Pi, fewer than
\* Pi.maxRequests earlier checkMultipleRateLimits calls for that identifier
\* were Allowed within the trailing Pi.windowMs; in particular the first
\* call for a never-seen identifier is Allowed.
C29_AsStated ==
    \A i \in Calls :
        (/\ hist[i].op = "multi"
         /\ \A j \in 1..(i - 1) : hist[j].op = "multi"
         /\ \A k \in 1..Len(hist[i].configs) :
               /\ hist[i].configs[k].maxRequests >= 1
               /\ Cardinality(EarlierAllowedMulti(i, hist[i].configs[k]))
                    < hist[i].configs[k].maxRequests)
        => hist[i].res.allowed


---------------------------------------------------------------------------
(* Claims about the keys (SpecKey).                                        *)

\* C30 as stated: createRateLimitKey is injective on (identifier, endpoint)
\* pairs: two different pairs never give the same key, also when the
\* identifiers or the endpoints contain ':' (as IPv6 addresses do).
C30_AsStated ==
    \A i, j \in Calls :
        (/\ hist[i].op = "key" /\ hist[j].op = "key"
         /\ hist[i].res = hist[j].res)
        => /\ hist[i].id = hist[j].id
           /\ hist[i].endpoint = hist[j].endpoint

=============================================================================
